---- MODULE Spec2Model ----
(***************************************************************************)
(* FactoryMind: candidate cost model and recipe-to-machine assignment.     *)
(*                                                                         *)
(* Three specifications share this module.                                 *)
(*   Spec      the assignment optimizer (ProductionPlanner.                *)
(*             optimize_assignment) followed by main's report.             *)
(*   SpecCost  the cost model (ProductionTaskCandidate.__init__,           *)
(*             evaluate_recipe_time and Machine.loading_time) applied to   *)
(*             one machine, one recipe and one requested quantity.         *)
(*   SpecPlan  main's pipeline: create_candidates on orders and machines,  *)
(*             then optimize_assignment and the report.                    *)
(* Python floats are modelled as exact rationals (SpecCost) or as whole    *)
(* seconds (Spec).                                                         *)
(***************************************************************************)
EXTENDS Integers, Sequences, FiniteSets, TLC

VARIABLES
    pc,          \* position of the run
    candidates,  \* optimize_assignment's argument: list of candidates
    status,      \* pulp.LpStatus[prob.status] after prob.solve
    xvalue,      \* solver values of the binary variables x[recipe][machine]
    makespan,    \* solver value of the continuous variable Makespan
    plan,        \* list returned by optimize_assignment (indices into candidates)
    log,         \* messages handed to the logger, in order
    printed,     \* totals printed by print_candidates_formatted
    task,        \* cost model input: machine, recipe, requested quantity
    candidate,   \* the ProductionTaskCandidate built for task
    evaluated,   \* the value evaluate_recipe_time returned for task
    raised,      \* the exception each call ended with
    loaded,      \* one Machine.loading_time call: material, quantity, time
    orders,      \* main's orders: a list of orders, each a list of items
    machines,    \* main's machines
    grouped,     \* what group_orders_by_recipe returned
    used,        \* one pair of Machine.energy_use calls: durations and results
    planner,     \* the attributes of the ProductionPlanner object
    earlier,     \* an earlier optimize_assignment call on another list
    again,       \* a second optimize_assignment call on the same list
    machine_settings,  \* Machine.settings of each machine: a list of settings
    setting_machine    \* MachineRecipeSetting.machine of each setting built

optVars == <<candidates, status, xvalue, makespan, plan, log, printed>>
costVars == <<task, candidate, evaluated, raised, loaded, used>>
planVars == <<orders, machines, grouped>>
callVars == <<planner, earlier, again>>
settingVars == <<machine_settings, setting_machine>>
vars == <<pc, candidates, status, xvalue, makespan, plan, log, printed,
          task, candidate, evaluated, raised, loaded, used, orders, machines,
          grouped, planner, earlier, again, machine_settings, setting_machine>>

----------------------------------------------------------------------------
(* Bounds and input domains of the optimizer specification.                *)

RecipeOrder == <<"A", "B", "C">>
MachineOrder == <<"M1", "M2">>
Times == {1, 100, 150, 20000}
MaxCandidates == 3

\* epsilon = 0.0001 = 1 / EpsilonDen
EpsilonDen == 10000

NONE == "none"
\* Python's None where the other values are objects
None == [none |-> TRUE]

RECURSIVE SumSet(_, _)
SumSet(S, f) ==
    IF S = {} THEN 0
    ELSE LET e == CHOOSE e \in S : TRUE
         IN  f[e] + SumSet(S \ {e}, f)

MaxOf(S) == CHOOSE v \in S : \A w \in S : w <= v
MinOf(S) == CHOOSE v \in S : \A w \in S : v <= w

\* Every (recipe, machine) pair in the order _create_candidates visits them:
\* recipes outermost, machines innermost.
AllPairs ==
    [i \in 1..(Len(RecipeOrder) * Len(MachineOrder)) |->
        <<RecipeOrder[((i - 1) \div Len(MachineOrder)) + 1],
          MachineOrder[((i - 1) % Len(MachineOrder)) + 1]>>]

\* nominal_power_kw of the two machines of the optimizer's inputs
NominalPowerOf == ("M1" :> 12 @@ "M2" :> 5)

\* total_energy_consumption of a candidate of t seconds on machine m: with
\* the default power profile (every factor 1.0) it is seconds * nominal power
EnergyOfSeconds(m, t) == t * NominalPowerOf[m]

\* The candidate list _create_candidates appends for the supported pairs supp
\* with estimated times t.
CandidateList(supp, t) ==
    LET Keep(i) == i \in supp
        idxs == SelectSeq([i \in 1..Len(AllPairs) |-> i], Keep)
    IN  [k \in 1..Len(idxs) |->
            [recipe |-> AllPairs[idxs[k]][1],
             machine |-> AllPairs[idxs[k]][2],
             estimated_time |-> t[idxs[k]],
             total_energy_consumption |-> EnergyOfSeconds(AllPairs[idxs[k]][2], t[idxs[k]])]]

----------------------------------------------------------------------------
(* optimize_assignment: grouping and lookup tables.                        *)

Indices(cands) == 1..Len(cands)

\* candidates_by_recipe[name]: the indices of the recipe's candidates, in order
CandidatesByRecipe(cands, r) ==
    LET IsR(i) == cands[i].recipe = r
    IN  SelectSeq([i \in 1..Len(cands) |-> i], IsR)

\* recipes = list(candidates_by_recipe.keys()): first-occurrence order
RecipeNames(cands) == {cands[i].recipe : i \in Indices(cands)}

RecipeList(cands) ==
    LET First(i) == \A j \in 1..(i - 1) : cands[j].recipe # cands[i].recipe
        firsts == SelectSeq([i \in 1..Len(cands) |-> i], First)
    IN  [k \in 1..Len(firsts) |-> cands[firsts[k]].recipe]

\* machines = {c.machine.name for c in candidates}
MachineNames(cands) == {cands[i].machine : i \in Indices(cands)}

\* keys of candidate_map[r], in insertion order
MachineKeys(cands, r) ==
    LET byR == CandidatesByRecipe(cands, r)
        First(k) == \A j \in 1..Len(byR) :
                        (j < k) => cands[byR[j]].machine # cands[byR[k]].machine
        Pos(i) == CHOOSE k \in 1..Len(byR) : byR[k] = i
        FirstIdx(i) == First(Pos(i))
        firsts == SelectSeq(byR, FirstIdx)
    IN  [k \in 1..Len(firsts) |-> cands[firsts[k]].machine]

\* candidate_map[r][m]: a dict comprehension keeps the last candidate of the pair
CandidateMap(cands, r, m) ==
    LET hits == {i \in Indices(cands) : cands[i].recipe = r /\ cands[i].machine = m}
    IN  MaxOf(hits)

\* the (recipe, machine) pairs that own a binary variable
XPairs(cands) == {<<cands[i].recipe, cands[i].machine>> : i \in Indices(cands)}

----------------------------------------------------------------------------
(* optimize_assignment: the binary program handed to the solver.           *)
(* x maps every pair of XPairs to 0 or 1; mk is the Makespan variable.     *)

TimeOfPair(cands, p) == cands[CandidateMap(cands, p[1], p[2])].estimated_time

\* total_time = lpSum(x[r][m] * estimated_time)
TotalTime(cands, x) ==
    SumSet(XPairs(cands), [p \in XPairs(cands) |-> x[p] * TimeOfPair(cands, p)])

\* Mutant of Objective: the makespan term is left out of the objective.
ObjectiveTotalTimeOnly(cands, x, mk) == TotalTime(cands, x)

\* prob += makespan + epsilon * total_time, stated in units of epsilon
Objective(cands, x, mk) == EpsilonDen * mk + TotalTime(cands, x)

\* Mutant of RecipeAssignmentConstraint: "<= 1" written for "== 1".
RecipeAssignmentAtMostOne(cands, x) ==
    \A r \in RecipeNames(cands) :
        SumSet({p \in XPairs(cands) : p[1] = r}, x) <= 1

\* Constraint 1: each recipe is assigned to exactly one machine
RecipeAssignmentConstraint(cands, x) ==
    \A r \in RecipeNames(cands) :
        SumSet({p \in XPairs(cands) : p[1] = r}, x) = 1

\* lpSum(machine_time_terms) of one machine
MachineTimeTerms(cands, x, m) ==
    SumSet({p \in XPairs(cands) : p[2] = m},
           [p \in XPairs(cands) |-> x[p] * TimeOfPair(cands, p)])

\* Mutant of MachineTimeConstraint: the constraint is added after the loop,
\* for one machine only.
MachineTimeConstraintOneMachine(cands, x, mk) ==
    LET m == CHOOSE m \in MachineNames(cands) : TRUE
    IN  MachineTimeTerms(cands, x, m) <= mk

\* Constraint 2: Makespan >= total time of each machine
MachineTimeConstraint(cands, x, mk) ==
    \A m \in MachineNames(cands) : MachineTimeTerms(cands, x, m) <= mk

\* Values the continuous variable Makespan (lowBound 0) may take: 0 and every
\* sum of estimated times of a set of candidates.
MakespanDomain(cands) ==
    {SumSet(S, [i \in Indices(cands) |-> cands[i].estimated_time]) :
        S \in SUBSET Indices(cands)}

FeasibleSolutions(cands) ==
    {s \in [x : [XPairs(cands) -> {0, 1}], mk : MakespanDomain(cands)] :
        /\ RecipeAssignmentConstraint(cands, s.x)
        /\ MachineTimeConstraint(cands, s.x, s.mk)}

\* What an exact solver may return with status Optimal: any feasible point
\* of minimum objective.
OptimalSolutions(cands) ==
    LET F == FeasibleSolutions(cands)
        best == MinOf({Objective(cands, s.x, s.mk) : s \in F})
    IN  {s \in F : Objective(cands, s.x, s.mk) = best}

NonOptimalStatus == {"Not Solved", "Infeasible", "Unbounded", "Undefined"}

----------------------------------------------------------------------------
(* optimize_assignment: what is returned.                                  *)

\* inner loop of "Extract results": the first machine whose variable is 1
SelectedFor(cands, x, r) ==
    LET keys == MachineKeys(cands, r)
        hits == {k \in 1..Len(keys) : x[<<r, keys[k]>>] = 1}
    IN  IF hits = {} THEN <<>>
        ELSE <<CandidateMap(cands, r, keys[MinOf(hits)])>>

RECURSIVE ExtractFrom(_, _, _)
ExtractFrom(cands, x, k) ==
    IF k > Len(RecipeList(cands)) THEN <<>>
    ELSE SelectedFor(cands, x, RecipeList(cands)[k]) \o ExtractFrom(cands, x, k + 1)

ExtractResults(cands, x) == ExtractFrom(cands, x, 1)

\* Mutant of MinByTime: the key is ignored and the first candidate returned.
MinByTimeFirst(cands, idxs) == idxs[1]

\* min(recipe_candidates, key=estimated_time): the first of the smallest
MinByTime(cands, idxs) ==
    LET k == MinOf({k \in 1..Len(idxs) :
                      \A j \in 1..Len(idxs) :
                          cands[idxs[k]].estimated_time <= cands[idxs[j]].estimated_time})
    IN  idxs[k]

\* Mutant of GreedyFallback: each recipe gets its slowest candidate.
GreedyFallbackSlowest(cands) ==
    [k \in 1..Len(RecipeList(cands)) |->
        LET idxs == CandidatesByRecipe(cands, RecipeList(cands)[k])
        IN  idxs[CHOOSE i \in 1..Len(idxs) :
                    \A j \in 1..Len(idxs) :
                        cands[idxs[j]].estimated_time <= cands[idxs[i]].estimated_time]]

\* [min(recipe_candidates, key=estimated_time) for each recipe's candidates]
GreedyFallback(cands) ==
    [k \in 1..Len(RecipeList(cands)) |->
        MinByTime(cands, CandidatesByRecipe(cands, RecipeList(cands)[k]))]

AssignedLog(cands, sel) ==
    [k \in 1..Len(sel) |->
        [level |-> "info", msg |-> "Assigned",
         arg |-> <<cands[sel[k]].recipe, cands[sel[k]].machine>>]]

----------------------------------------------------------------------------
(* main.py: print_candidates_formatted totals.                             *)

\* machine_times[name]: sum of estimated_time of the plan's candidates on it
MachineTime(cands, sel, m) ==
    SumSet({k \in 1..Len(sel) : cands[sel[k]].machine = m},
           [k \in 1..Len(sel) |-> cands[sel[k]].estimated_time])

PlanMachines(cands, sel) == {cands[sel[k]].machine : k \in 1..Len(sel)}

\* sum(c.total_energy_consumption for c in candidates)
TotalEnergy(cands, sel) ==
    SumSet(1..Len(sel), [k \in 1..Len(sel) |-> cands[sel[k]].total_energy_consumption])

\* Mutant of PrintCandidatesFormatted: the machines are taken to work one
\* after the other, so the makespan is the sum of the machine times.
PrintCandidatesFormattedSerial(cands, sel) ==
    LET mt == [m \in PlanMachines(cands, sel) |-> MachineTime(cands, sel, m)]
    IN  [total_energy |-> TotalEnergy(cands, sel),
         total_work_time |-> SumSet(DOMAIN mt, mt),
         makespan |-> SumSet(DOMAIN mt, mt)]

PrintCandidatesFormatted(cands, sel) ==
    LET mt == [m \in PlanMachines(cands, sel) |-> MachineTime(cands, sel, m)]
    IN  [total_energy |-> TotalEnergy(cands, sel),
         total_work_time |-> SumSet(DOMAIN mt, mt),
         makespan |-> IF DOMAIN mt = {} THEN 0 ELSE MaxOf({mt[m] : m \in DOMAIN mt})]

----------------------------------------------------------------------------
(* The optimizer specification.                                            *)

Init ==
    /\ pc = "start"
    /\ \E supp \in SUBSET (1..Len(AllPairs)) :
          /\ Cardinality(supp) <= MaxCandidates
          /\ \E t \in [supp -> Times] : candidates = CandidateList(supp, t)
    /\ status = NONE
    /\ xvalue = NONE
    /\ makespan = NONE
    /\ plan = <<>>
    /\ log = <<>>
    /\ printed = NONE
    /\ task = None
    /\ candidate = None
    /\ evaluated = None
    /\ raised = [candidate |-> NONE, evaluate |-> NONE]
    /\ loaded = None
    /\ orders = <<>>
    /\ machines = <<>>
    /\ grouped = <<>>
    /\ used = None
    /\ planner = <<>>
    /\ earlier = None
    /\ again = None
    /\ machine_settings = <<>>
    /\ setting_machine = <<>>

\* Mutant of PlannerAfter: the planner remembers the size of each list it
\* was given.
PlannerAfterRemembering(p, cands) == Append(p, Len(cands))

\* The attributes of the planner object after a call of optimize_assignment
\* on cands: the method assigns nothing to self (the class has no __init__
\* and no class attribute), and every table it builds is a local.
PlannerAfter(p, cands) == p

\* ProductionPlanner.optimize_assignment, one call
OptimizeAssignment ==
    /\ pc = "start"
    /\ pc' = "optimized"
    /\ \/ /\ candidates = <<>>
          /\ plan' = <<>>
          /\ UNCHANGED <<status, xvalue, makespan, log>>
       \/ /\ candidates # <<>>
          /\ \E s \in OptimalSolutions(candidates) :
                /\ status' = "Optimal"
                /\ xvalue' = s.x
                /\ makespan' = s.mk
                /\ plan' = ExtractResults(candidates, s.x)
                /\ log' = log \o <<[level |-> "info", msg |-> "Optimization Status", arg |-> "Optimal"]>>
                          \o AssignedLog(candidates, ExtractResults(candidates, s.x))
                          \o <<[level |-> "info", msg |-> "Optimized Makespan", arg |-> s.mk]>>
       \/ /\ candidates # <<>>
          /\ \E st \in NonOptimalStatus :
                /\ status' = st
                /\ plan' = GreedyFallback(candidates)
                /\ log' = log \o
                          <<[level |-> "info", msg |-> "Optimization Status", arg |-> st],
                            [level |-> "warn",
                             msg |-> "Could not find optimal solution. Returning best candidates.",
                             arg |-> NONE]>>
          /\ UNCHANGED <<xvalue, makespan>>
    /\ planner' = PlannerAfter(planner, candidates)
    /\ UNCHANGED <<candidates, printed, earlier, again>>
    /\ UNCHANGED costVars
    /\ UNCHANGED planVars
    /\ UNCHANGED settingVars

\* main, after optimize_assignment: an empty plan ends the process
MainExit ==
    /\ pc = "optimized"
    /\ plan = <<>>
    /\ pc' = "exit"
    /\ log' = Append(log, [level |-> "error", msg |-> "No candidates generated!", arg |-> NONE])
    /\ UNCHANGED <<candidates, status, xvalue, makespan, plan, printed>>
    /\ UNCHANGED costVars
    /\ UNCHANGED planVars
    /\ UNCHANGED callVars
    /\ UNCHANGED settingVars

\* main, after optimize_assignment: the plan is printed
MainReport ==
    /\ pc = "optimized"
    /\ plan # <<>>
    /\ pc' = "printed"
    /\ log' = Append(log, [level |-> "success", msg |-> "Planner execution complete.", arg |-> NONE])
    /\ printed' = PrintCandidatesFormatted(candidates, plan)
    /\ UNCHANGED <<candidates, status, xvalue, makespan, plan>>
    /\ UNCHANGED costVars
    /\ UNCHANGED planVars
    /\ UNCHANGED callVars
    /\ UNCHANGED settingVars

Next == OptimizeAssignment \/ MainExit \/ MainReport

Spec == Init /\ [][Next]_vars

----------------------------------------------------------------------------
(* Exact rational arithmetic standing for Python floats: [n, d] with d > 0 *)
(* and n, d coprime.                                                       *)

Abs(a) == IF a < 0 THEN -a ELSE a

RECURSIVE GCD(_, _)
GCD(a, b) == IF b = 0 THEN a ELSE GCD(b, a % b)

Rat(n, d) ==
    LET g == GCD(Abs(n), Abs(d))
        sg == IF d < 0 THEN -1 ELSE 1
    IN  [n |-> sg * (n \div g), d |-> Abs(d) \div g]

RInt(i) == [n |-> i, d |-> 1]
\* sums and products cancel common factors before they multiply, to keep
\* the intermediate integers small
RAdd(p, q) ==
    LET g == GCD(p.d, q.d)
    IN  Rat(p.n * (q.d \div g) + q.n * (p.d \div g), (p.d \div g) * q.d)
RMul(p, q) ==
    LET g1 == GCD(Abs(p.n), q.d)
        g2 == GCD(Abs(q.n), p.d)
    IN  Rat((p.n \div g1) * (q.n \div g2), (p.d \div g2) * (q.d \div g1))
RDiv(p, q) == Rat(p.n * q.d, p.d * q.n)
RLe(p, q) == p.n * q.d <= q.n * p.d
RLt(p, q) == p.n * q.d < q.n * p.d
\* math.ceil: the least integer not below p
Ceil(p) == -((-p.n) \div p.d)

----------------------------------------------------------------------------
(* Domain objects of the cost model and the inputs drawn for them.         *)

PIECE == "piece"
KILOGRAM == "kg"
LITER == "L"

Flour == [name |-> "Flour", unit |-> KILOGRAM]
Sugar == [name |-> "Sugar", unit |-> KILOGRAM]
Water == [name |-> "Water", unit |-> LITER]

\* 100 pieces per run from 50 kg of flour and 20 kg of sugar
Cookie ==
    [name |-> "Cookie",
     ingredients |-> <<[material |-> Flour, quantity |-> RInt(50)],
                       [material |-> Sugar, quantity |-> RInt(20)]>>,
     output_quantity |-> RInt(100),
     output_unit |-> PIECE]

\* 3 litres per run from 5 kg of sugar and 8 litres of water
Syrup ==
    [name |-> "Syrup",
     ingredients |-> <<[material |-> Sugar, quantity |-> RInt(5)],
                       [material |-> Water, quantity |-> RInt(8)]>>,
     output_quantity |-> RInt(3),
     output_unit |-> LITER]

RecipeCatalog == {Cookie, Syrup}

\* material_loading_rate tables: by unit only, or by unit and by material
LoadingRateTables ==
    {[by_unit |-> (KILOGRAM :> RInt(10)), by_material |-> <<>>],
     [by_unit |-> (KILOGRAM :> RInt(10) @@ LITER :> RInt(4)),
      by_material |-> ("Flour" :> RInt(5))]}

\* MachinePowerProfile
IDLE == "idle"
LOADING == "loading"
PRODUCE == "produce"

NominalPowers == {RInt(12)}
PowerProfiles == {(IDLE :> Rat(1, 5) @@ LOADING :> Rat(1, 2) @@ PRODUCE :> RInt(1))}
EnergyFactors == {RInt(1), Rat(6, 5)}

MaxWorkingHours == {8, 24}
SettingTimes == {RInt(1), RInt(3600)}
SetupTimes == {RInt(0), RInt(60)}
UnloadTimes == {RInt(0), RInt(30)}
YieldRates == {RInt(1), Rat(19, 20), Rat(1, 2)}
Capacities == {RInt(30), RInt(100)}
RequestedQuantities == {RInt(0), RInt(57), RInt(200), RInt(950)}

SECONDS_PER_HOUR == 3600
HOURS_PER_DAY == 24

MachineRecipeSettings ==
    [recipe : RecipeCatalog, time : SettingTimes, setup_time : SetupTimes,
     unload_time : UnloadTimes, yield_rate : YieldRates, capacity : Capacities,
     energy_factor : EnergyFactors]

\* the setting a machine holds for a recipe other than the one asked for
OtherSetting(r) ==
    [recipe |-> CHOOSE o \in RecipeCatalog : o # r,
     time |-> RInt(1), setup_time |-> RInt(60), unload_time |-> RInt(30),
     yield_rate |-> RInt(1), capacity |-> RInt(100), energy_factor |-> RInt(1)]

\* MachineRecipeSettingSchema, OrderItemSchema: what validation lets through
ValidTriple(t) ==
    /\ RLt(RInt(0), t.requested_quantity)
    /\ \E k \in 1..Len(t.machine.settings) :
          LET st == t.machine.settings[k]
          IN  /\ st.recipe.name = t.recipe.name
              /\ RLt(RInt(0), st.time)
              /\ RLe(RInt(0), st.setup_time)
              /\ RLe(RInt(0), st.unload_time)
              /\ RLt(RInt(0), st.yield_rate) /\ RLe(st.yield_rate, RInt(1))
              /\ RLt(RInt(0), st.capacity)

----------------------------------------------------------------------------
(* Machine lookups used by the cost model.                                 *)

\* Machine.get_setting_for_recipe_from_name: the machine's setting whose
\* recipe has the name, or None
GetSettingForRecipeFromName(m, name) ==
    LET hits == {k \in 1..Len(m.settings) : m.settings[k].recipe.name = name}
    IN  IF hits = {} THEN None ELSE m.settings[MinOf(hits)]

\* Machine.get_loading_rate: by material name first, then by unit, else 1.0
GetLoadingRate(m, material) ==
    IF material.name \in DOMAIN m.loading_rates.by_material
    THEN m.loading_rates.by_material[material.name]
    ELSE IF material.unit \in DOMAIN m.loading_rates.by_unit
         THEN m.loading_rates.by_unit[material.unit]
         ELSE RInt(1)

\* Mutant of LoadingTime: the unit entry is looked up before the name entry.
LoadingTimeUnitFirst(m, quantity, material) ==
    LET rate == IF material.unit \in DOMAIN m.loading_rates.by_unit
                THEN m.loading_rates.by_unit[material.unit]
                ELSE IF material.name \in DOMAIN m.loading_rates.by_material
                     THEN m.loading_rates.by_material[material.name]
                     ELSE RInt(0)
    IN  RMul(quantity, rate)

\* Machine.loading_time: the rate by material name first, then by unit, else
\* 0; returns quantity * rate
LoadingTime(m, quantity, material) ==
    LET rate == IF material.name \in DOMAIN m.loading_rates.by_material
                THEN m.loading_rates.by_material[material.name]
                ELSE IF material.unit \in DOMAIN m.loading_rates.by_unit
                     THEN m.loading_rates.by_unit[material.unit]
                     ELSE RInt(0)
    IN  RMul(quantity, rate)

----------------------------------------------------------------------------
(* ProductionTaskCandidate.                                                *)

\* Mutant of ActualQuantity: int() truncation written for ceil().
ActualQuantityTruncated(st, r, requested) ==
    LET q == RDiv(requested, st.yield_rate)
    IN  IF r.output_unit = PIECE THEN RInt(q.n \div q.d) ELSE q

\* requested / yield_rate, rounded up when the output unit is the piece
ActualQuantity(st, r, requested) ==
    LET q == RDiv(requested, st.yield_rate)
    IN  IF r.output_unit = PIECE THEN RInt(Ceil(q)) ELSE q

\* Mutant of HowManyTimesRecipe: the quotient is truncated, not rounded up.
HowManyTimesRecipeFloor(r, actual) ==
    LET q == RDiv(actual, r.output_quantity)
    IN  q.n \div q.d

HowManyTimesRecipe(r, actual) == Ceil(RDiv(actual, r.output_quantity))

RECURSIVE LoadingTimeFrom(_, _, _, _)
LoadingTimeFrom(m, ingredients, times, k) ==
    IF k > Len(ingredients) THEN RInt(0)
    ELSE RAdd(RDiv(RMul(ingredients[k].quantity, RInt(times)),
                   GetLoadingRate(m, ingredients[k].material)),
              LoadingTimeFrom(m, ingredients, times, k + 1))

UnloadingTimes(st, actual) == Ceil(RDiv(actual, st.capacity))

\* _evaluate_recipe_total_time: (idle_time, loading_time, producing_time)
EvaluateRecipeTotalTime(m, r, st, actual, times) ==
    [idle_time |-> RAdd(st.setup_time,
                        RMul(RInt(UnloadingTimes(st, actual)), st.unload_time)),
     loading_time |-> LoadingTimeFrom(m, r.ingredients, times, 1),
     producing_time |-> RMul(RInt(times), st.time)]

DaysNeeded(m, base) ==
    Ceil(RDiv(RDiv(base, RInt(SECONDS_PER_HOUR)), RInt(m.max_working_hours_per_day)))

\* Mutant of TotalNonWorkingHours: the last day is charged its idle hours too.
TotalNonWorkingHoursEveryDay(m, base) ==
    DaysNeeded(m, base) * (HOURS_PER_DAY - m.max_working_hours_per_day)

TotalNonWorkingHours(m, base) ==
    (DaysNeeded(m, base) - 1) * (HOURS_PER_DAY - m.max_working_hours_per_day)

EstimatedTime(m, base) ==
    RAdd(base, RInt(TotalNonWorkingHours(m, base) * SECONDS_PER_HOUR))

\* Mutant of EnergyConsumptionPerProfiles: the idle state draws one second's
\* worth of standby energy on top of its duration's.
EnergyConsumptionPerProfilesStandby(m, t) ==
    (IDLE :> RMul(RMul(RAdd(t.idle_time, RInt(1)), m.nominal_power_kw), m.power_profile[IDLE])
     @@ LOADING :> RMul(RMul(t.loading_time, m.nominal_power_kw), m.power_profile[LOADING])
     @@ PRODUCE :> RMul(RMul(t.producing_time, m.nominal_power_kw), m.power_profile[PRODUCE]))

\* energy_consumption_per_profiles: seconds * nominal power * profile factor
EnergyConsumptionPerProfiles(m, t) ==
    (IDLE :> RMul(RMul(t.idle_time, m.nominal_power_kw), m.power_profile[IDLE])
     @@ LOADING :> RMul(RMul(t.loading_time, m.nominal_power_kw), m.power_profile[LOADING])
     @@ PRODUCE :> RMul(RMul(t.producing_time, m.nominal_power_kw), m.power_profile[PRODUCE]))

\* sum(energy_consumption_per_profiles.values())
TotalEnergyConsumption(e) == RAdd(RAdd(e[IDLE], e[LOADING]), e[PRODUCE])

\* The keys a caller gives state_durations: members of MachinePowerProfile,
\* or the strings the docstring of energy_use names ('idle', 'load',
\* 'produce'), none of which equals a member of the enumeration.
DurationKeys == {"member", "str"}

\* power_profile.items.get(state, 0)
ProfileFactor(m, keys, state) ==
    IF keys = "member" THEN m.power_profile[state] ELSE RInt(0)

\* Machine.energy_use(state_durations): the sum over the states of
\* nominal_power_kw * factor * (seconds / SECONDS_PER_HOUR)
EnergyUse(m, d) ==
    LET term(state) ==
            RMul(RMul(m.nominal_power_kw, ProfileFactor(m, d.keys, state)),
                 RDiv(d.seconds[state], RInt(SECONDS_PER_HOUR)))
    IN  RAdd(RAdd(term(IDLE), term(LOADING)), term(PRODUCE))

\* __init__ once the setting is found
NewCandidate(m, r, requested) ==
    LET st == GetSettingForRecipeFromName(m, r.name)
        actual == ActualQuantity(st, r, requested)
        times == HowManyTimesRecipe(r, actual)
        t == EvaluateRecipeTotalTime(m, r, st, actual, times)
        base == RAdd(RAdd(t.idle_time, t.loading_time), t.producing_time)
        energy == EnergyConsumptionPerProfiles(m, t)
    IN  [machine |-> m.name,
         recipe |-> r.name,
         requested_quantity |-> requested,
         recipe_settings |-> st,
         actual_quantity |-> actual,
         how_many_times_recipe |-> times,
         idle_time |-> t.idle_time,
         loading_time |-> t.loading_time,
         producing_time |-> t.producing_time,
         estimated_time |-> EstimatedTime(m, base),
         energy_consumption_per_profiles |-> energy,
         total_energy_consumption |-> TotalEnergyConsumption(energy)]

----------------------------------------------------------------------------
(* utils/time_evaluator.py                                                 *)

\* evaluate_recipe_time once the setting is found
EvaluateRecipeTime(m, recipeName, amount_needed) ==
    LET st == GetSettingForRecipeFromName(m, recipeName)
        r == st.recipe
        amount == LET q == RDiv(amount_needed, st.yield_rate)
                  IN  IF r.output_unit = PIECE THEN RInt(Ceil(q)) ELSE q
        times == Ceil(RDiv(amount, r.output_quantity))
        t1 == RAdd(st.setup_time, RMul(RInt(times), st.time))
        t2 == RAdd(t1, LoadingTimeFrom(m, r.ingredients, times, 1))
        unloading_times == Ceil(RDiv(amount, st.capacity))
    IN  RAdd(t2, RMul(RInt(unloading_times), st.unload_time))

----------------------------------------------------------------------------
(* The cost model specification: one machine, one recipe, one quantity.    *)

InitCost ==
    /\ pc = "cost"
    /\ candidates = <<>>
    /\ status = NONE
    /\ xvalue = NONE
    /\ makespan = NONE
    /\ plan = <<>>
    /\ log = <<>>
    /\ printed = NONE
    /\ \E r \in RecipeCatalog, st \in MachineRecipeSettings,
          rates \in LoadingRateTables, h \in MaxWorkingHours,
          q \in RequestedQuantities, supported \in BOOLEAN,
          power \in NominalPowers, profile \in PowerProfiles :
          /\ st.recipe = r
          /\ task = [machine |->
                        [name |-> "Oven",
                         nominal_power_kw |-> power,
                         power_profile |-> profile,
                         max_working_hours_per_day |-> h,
                         loading_rates |-> rates,
                         settings |-> IF supported THEN <<OtherSetting(r), st>>
                                      ELSE <<OtherSetting(r)>>],
                     recipe |-> r,
                     requested_quantity |-> q]
    /\ candidate = None
    /\ evaluated = None
    /\ raised = [candidate |-> NONE, evaluate |-> NONE]
    /\ loaded = None
    /\ orders = <<>>
    /\ machines = <<>>
    /\ grouped = <<>>
    /\ used = None
    /\ planner = <<>>
    /\ earlier = None
    /\ again = None
    /\ machine_settings = <<>>
    /\ setting_machine = <<>>

\* ProductionTaskCandidate(machine, recipe, requested_quantity)
BuildCandidate ==
    /\ pc = "cost"
    /\ candidate = None
    /\ raised.candidate = NONE
    /\ IF GetSettingForRecipeFromName(task.machine, task.recipe.name) = None
       THEN /\ raised' = [raised EXCEPT !.candidate = "ValueError"]
            /\ UNCHANGED candidate
       ELSE /\ candidate' = NewCandidate(task.machine, task.recipe, task.requested_quantity)
            /\ UNCHANGED raised
    /\ UNCHANGED <<pc, task, evaluated, loaded, used>>
    /\ UNCHANGED optVars
    /\ UNCHANGED planVars
    /\ UNCHANGED callVars
    /\ UNCHANGED settingVars

\* evaluate_recipe_time(machine, recipeName, amount_needed)
EvaluateTime ==
    /\ pc = "cost"
    /\ evaluated = None
    /\ raised.evaluate = NONE
    /\ IF GetSettingForRecipeFromName(task.machine, task.recipe.name) = None
       THEN \* recipe_setting.recipe is read before the None check
            /\ raised' = [raised EXCEPT !.evaluate = "AttributeError"]
            /\ UNCHANGED evaluated
       ELSE /\ evaluated' = EvaluateRecipeTime(task.machine, task.recipe.name,
                                               task.requested_quantity)
            /\ UNCHANGED raised
    /\ UNCHANGED <<pc, task, candidate, loaded, used>>
    /\ UNCHANGED optVars
    /\ UNCHANGED planVars
    /\ UNCHANGED callVars
    /\ UNCHANGED settingVars

\* task.machine.loading_time(quantity, material) for one ingredient line
MachineLoadingTime ==
    /\ pc = "cost"
    /\ loaded = None
    /\ \E k \in 1..Len(task.recipe.ingredients) :
          LET ing == task.recipe.ingredients[k]
          IN  loaded' = [material |-> ing.material,
                         quantity |-> ing.quantity,
                         time |-> LoadingTime(task.machine, ing.quantity, ing.material)]
    /\ UNCHANGED <<pc, task, candidate, evaluated, raised, used>>
    /\ UNCHANGED optVars
    /\ UNCHANGED planVars
    /\ UNCHANGED callVars
    /\ UNCHANGED settingVars

\* the seconds the candidate spends in each power state
StateSeconds(c) ==
    (IDLE :> c.idle_time @@ LOADING :> c.loading_time @@ PRODUCE :> c.producing_time)

\* task.machine.energy_use(state_durations), called on the candidate's
\* durations and again on the same durations with one state's doubled
MachineEnergyUse ==
    /\ pc = "cost"
    /\ candidate # None
    /\ used = None
    /\ \E keys \in DurationKeys, state \in {IDLE, LOADING, PRODUCE} :
          LET secs == StateSeconds(candidate)
              twice == [secs EXCEPT ![state] = RMul(RInt(2), secs[state])]
          IN  used' = [keys |-> keys,
                       seconds |-> secs,
                       doubled |-> state,
                       energy |-> EnergyUse(task.machine, [keys |-> keys, seconds |-> secs]),
                       energy_doubled |->
                           EnergyUse(task.machine, [keys |-> keys, seconds |-> twice])]
    /\ UNCHANGED <<pc, task, candidate, evaluated, raised, loaded>>
    /\ UNCHANGED optVars
    /\ UNCHANGED planVars
    /\ UNCHANGED callVars
    /\ UNCHANGED settingVars

NextCost == BuildCandidate \/ EvaluateTime \/ MachineLoadingTime \/ MachineEnergyUse

SpecCost == InitCost /\ [][NextCost]_vars

----------------------------------------------------------------------------
(* The planning pipeline of main: create_candidates, optimize_assignment   *)
(* and the report.  Inputs: orders over the two recipes, machines M1 and   *)
(* M2 each holding a setting for some of the recipes.                      *)

\* order lines in all orders together
MaxItems == 3

\* OrderItem(recipe, quantity)
OrderItems ==
    {[recipe |-> Cookie, quantity |-> RInt(57)],
     [recipe |-> Cookie, quantity |-> RInt(200)],
     [recipe |-> Syrup, quantity |-> RInt(57)]}

\* the orders made of the order lines items, a new order starting after each
\* position of cuts
SplitOrders(items, cuts) ==
    LET n == Len(items)
        starts == IF n = 0 THEN {} ELSE {1} \cup {c + 1 : c \in cuts}
        Nth(k) == CHOOSE b \in starts : Cardinality({t \in starts : t <= b}) = k
        EndOf(b) == IF \E t \in starts : t > b
                    THEN MinOf({t \in starts : t > b}) - 1
                    ELSE n
    IN  [k \in 1..Cardinality(starts) |-> SubSeq(items, Nth(k), EndOf(Nth(k)))]

\* material_loading_rate of the pipeline's machines; the schema lets a rate
\* of 0 through
PlanRates == [by_unit |-> (KILOGRAM :> RInt(5) @@ LITER :> RInt(4)), by_material |-> <<>>]
PlanRatesZero == [by_unit |-> (KILOGRAM :> RInt(5) @@ LITER :> RInt(0)), by_material |-> <<>>]

\* the setting machine name holds for recipe r
PlanSetting(name, r) ==
    IF name = "M1"
    THEN [recipe |-> r, time |-> RInt(1), setup_time |-> RInt(60), unload_time |-> RInt(30),
          yield_rate |-> RInt(1), capacity |-> RInt(100), energy_factor |-> RInt(1)]
    ELSE [recipe |-> r, time |-> RInt(3), setup_time |-> RInt(0), unload_time |-> RInt(30),
          yield_rate |-> Rat(1, 2), capacity |-> RInt(100), energy_factor |-> RInt(1)]

\* Machine name with a setting for each recipe of supported
PlanMachine(name, supported, rates) ==
    LET Keep(r) == r \in supported
        rs == SelectSeq(<<Cookie, Syrup>>, Keep)
    IN  [name |-> name,
         nominal_power_kw |-> RInt(12),
         power_profile |-> (IDLE :> RInt(1) @@ LOADING :> RInt(1) @@ PRODUCE :> RInt(1)),
         max_working_hours_per_day |-> IF name = "M1" THEN 24 ELSE 8,
         loading_rates |-> rates,
         settings |-> [k \in 1..Len(rs) |-> PlanSetting(name, rs[k])]]

----------------------------------------------------------------------------
(* ProductionPlanner.group_orders_by_recipe.  The dict is a list of        *)
(* (recipe, quantity) entries in insertion order.                          *)

RECURSIVE FlattenItems(_)
\* for order in orders: for item in order.items
FlattenItems(os) ==
    IF os = <<>> THEN <<>> ELSE Head(os) \o FlattenItems(Tail(os))

\* Mutant of AddItem: "=" written for "+=".
AddItemOverwrite(g, item) ==
    IF \E k \in 1..Len(g) : g[k].recipe = item.recipe
    THEN [k \in 1..Len(g) |->
            IF g[k].recipe = item.recipe
            THEN [g[k] EXCEPT !.quantity = item.quantity]
            ELSE g[k]]
    ELSE Append(g, [recipe |-> item.recipe, quantity |-> item.quantity])

\* grouped[item.recipe] += item.quantity, a missing key starting at 0.0
AddItem(g, item) ==
    IF \E k \in 1..Len(g) : g[k].recipe = item.recipe
    THEN [k \in 1..Len(g) |->
            IF g[k].recipe = item.recipe
            THEN [g[k] EXCEPT !.quantity = RAdd(@, item.quantity)]
            ELSE g[k]]
    ELSE Append(g, [recipe |-> item.recipe, quantity |-> RAdd(RInt(0), item.quantity)])

RECURSIVE GroupFrom(_, _)
GroupFrom(g, items) ==
    IF items = <<>> THEN g ELSE GroupFrom(AddItem(g, Head(items)), Tail(items))

GroupOrdersByRecipe(os) == GroupFrom(<<>>, FlattenItems(os))

----------------------------------------------------------------------------
(* ProductionPlanner._create_candidates and create_candidates.             *)

\* the exception ProductionTaskCandidate.__init__ ends with for a pair whose
\* machine holds a setting: a division by zero in lines 30, 34, 46, 77 or 82
ConstructionError(m, r) ==
    LET st == GetSettingForRecipeFromName(m, r.name)
    IN  IF \/ st.yield_rate.n = 0
           \/ r.output_quantity.n = 0
           \/ m.max_working_hours_per_day = 0
           \/ st.capacity.n = 0
           \/ \E k \in 1..Len(r.ingredients) :
                 GetLoadingRate(m, r.ingredients[k].material).n = 0
        THEN "ZeroDivisionError"
        ELSE NONE

\* the candidate as the planner and the report read it; the pipeline's inputs
\* make every estimated time and every energy a whole number
PlanCandidate(m, r, quantity) ==
    LET c == NewCandidate(m, r, quantity)
    IN  [recipe |-> c.recipe,
         machine |-> c.machine,
         requested_quantity |-> c.requested_quantity,
         estimated_time |-> c.estimated_time.n \div c.estimated_time.d,
         total_energy_consumption |->
             c.total_energy_consumption.n \div c.total_energy_consumption.d]

\* Mutant of WithCandidate: a recipe's second candidate replaces its first.
WithCandidateReplacing(acc, c) ==
    LET Other(d) == d.recipe # c.recipe
    IN  [acc EXCEPT !.candidates = Append(SelectSeq(@, Other), c),
                    !.log = Append(@, [level |-> "trace", msg |-> "Created",
                                       arg |-> <<c.recipe, c.machine>>])]

\* candidates.append(candidate); log.trace(f"Created {candidate}")
WithCandidate(acc, c) ==
    [acc EXCEPT !.candidates = Append(@, c),
                !.log = Append(@, [level |-> "trace", msg |-> "Created",
                                   arg |-> <<c.recipe, c.machine>>])]

\* Mutant of AfterMachines: nothing is logged for a recipe without machines.
AfterMachinesSilent(acc, r) == acc

\* if machines_that_can_produce == 0: log.error(...)
AfterMachines(acc, r) ==
    IF \A i \in 1..Len(acc.candidates) : acc.candidates[i].recipe # r.name
    THEN [acc EXCEPT !.log = Append(@, [level |-> "error",
                                        msg |-> "No machines found to produce",
                                        arg |-> r.name])]
    ELSE acc

RECURSIVE CreateFrom(_, _, _, _, _)
\* the two loops from entry gi of grouped_orders and machine mi on; acc holds
\* the candidates and log so far and the exception that ended the loops
CreateFrom(g, ms, gi, mi, acc) ==
    IF gi > Len(g) THEN acc
    ELSE IF mi > Len(ms)
    THEN CreateFrom(g, ms, gi + 1, 1, AfterMachines(acc, g[gi].recipe))
    ELSE IF GetSettingForRecipeFromName(ms[mi], g[gi].recipe.name) = None
    THEN CreateFrom(g, ms, gi, mi + 1, acc)
    ELSE IF ConstructionError(ms[mi], g[gi].recipe) # NONE
    THEN [acc EXCEPT !.error = ConstructionError(ms[mi], g[gi].recipe)]
    ELSE CreateFrom(g, ms, gi, mi + 1,
                    WithCandidate(acc, PlanCandidate(ms[mi], g[gi].recipe, g[gi].quantity)))

\* _create_candidates(grouped_orders, machines)
CreateCandidatesFor(g, ms) ==
    CreateFrom(g, ms, 1, 1, [candidates |-> <<>>, log |-> <<>>, error |-> NONE])

----------------------------------------------------------------------------
(* The pipeline specification.                                             *)

InitPlan ==
    /\ pc = "main"
    /\ candidates = <<>>
    /\ status = NONE
    /\ xvalue = NONE
    /\ makespan = NONE
    /\ plan = <<>>
    /\ log = <<>>
    /\ printed = NONE
    /\ task = None
    /\ candidate = None
    /\ evaluated = None
    /\ raised = [candidate |-> NONE, evaluate |-> NONE]
    /\ loaded = None
    /\ \E n \in 0..MaxItems :
          \E items \in [1..n -> OrderItems], cuts \in SUBSET (1..(n - 1)) :
              orders = SplitOrders(items, cuts)
    /\ \E s1 \in SUBSET RecipeCatalog, s2 \in SUBSET RecipeCatalog,
          rates \in {PlanRates, PlanRatesZero} :
          machines = <<PlanMachine("M1", s1, PlanRates), PlanMachine("M2", s2, rates)>>
    /\ grouped = <<>>
    /\ used = None
    /\ planner = <<>>
    /\ earlier = None
    /\ again = None
    /\ machine_settings = <<>>
    /\ setting_machine = <<>>

\* "candidates.count == 0": list.count is a bound method, and a method never
\* equals 0, whatever the list holds
CountEqualsZero(cands) == FALSE

\* main: planner.create_candidates(orders, machines).  The success line is logged whatever the number of candidates; an
\* exception of the constructor leaves create_candidates and main.
CreateCandidates ==
    /\ pc = "main"
    /\ LET g == GroupOrdersByRecipe(orders)
           res == CreateCandidatesFor(g, machines)
           head == <<[level |-> "info", msg |-> "Running planner...", arg |-> NONE],
                     [level |-> "info", msg |-> "Planning for",
                      arg |-> <<Len(orders), Len(machines)>>],
                     [level |-> "info", msg |-> "Grouped into", arg |-> Len(g)]>>
       IN  /\ grouped' = g
           /\ IF res.error # NONE
              THEN /\ pc' = "aborted"
                   /\ raised' = [raised EXCEPT !.candidate = res.error]
                   /\ log' = log \o head \o res.log
                   /\ UNCHANGED candidates
              ELSE /\ pc' = "start"
                   /\ candidates' = res.candidates
                   /\ log' = log \o head \o res.log
                             \o IF CountEqualsZero(res.candidates)
                                THEN <<[level |-> "warn", msg |-> "No candidates generated",
                                        arg |-> NONE]>>
                                ELSE <<[level |-> "success", msg |-> "Generated",
                                        arg |-> Len(res.candidates)]>>
                   /\ UNCHANGED raised
    /\ UNCHANGED <<status, xvalue, makespan, plan, printed>>
    /\ UNCHANGED <<task, candidate, evaluated, loaded, used>>
    /\ UNCHANGED <<orders, machines>>
    /\ UNCHANGED callVars
    /\ UNCHANGED settingVars

NextPlan == CreateCandidates \/ OptimizeAssignment \/ MainExit \/ MainReport

SpecPlan == InitPlan /\ [][NextPlan]_vars

----------------------------------------------------------------------------
(* Reference notions used by the properties of the optimizer.              *)

\* every way of picking one input candidate per recipe
OnePerRecipe(cands) ==
    {a \in [RecipeNames(cands) -> Indices(cands)] :
        \A r \in RecipeNames(cands) : cands[a[r]].recipe = r}

\* busy time of machine m under the set S of candidate indices
LoadOf(cands, S, m) ==
    SumSet({i \in S : cands[i].machine = m},
           [i \in Indices(cands) |-> cands[i].estimated_time])

\* makespan of the set S of candidate indices: the longest machine busy time
MakespanOf(cands, S) ==
    IF S = {} THEN 0
    ELSE MaxOf({LoadOf(cands, S, m) : m \in MachineNames(cands)})

PlanSet == {plan[k] : k \in 1..Len(plan)}

SolvedOptimal == pc \in {"optimized", "printed"} /\ status = "Optimal"

FellBack == pc \in {"optimized", "printed"} /\ status \in NonOptimalStatus

\* C1: after an Optimal solve every selected candidate is an input candidate
\* and every recipe that has a candidate is selected exactly once.
C1_OneCandidatePerRecipe ==
    SolvedOptimal =>
        /\ \A k \in 1..Len(plan) : plan[k] \in Indices(candidates)
        /\ \A r \in RecipeNames(candidates) :
              Cardinality({k \in 1..Len(plan) : candidates[plan[k]].recipe = r}) = 1

C1_Witness ==
    /\ SolvedOptimal
    /\ Len(plan) >= 2
    /\ \E r \in RecipeNames(candidates) : Len(CandidatesByRecipe(candidates, r)) >= 2

\* C2: the plan returned after an Optimal solve has the least makespan among
\* all selections of one candidate per recipe.
C2_MinimumMakespan ==
    SolvedOptimal =>
        \A a \in OnePerRecipe(candidates) :
            MakespanOf(candidates, PlanSet)
                <= MakespanOf(candidates, {a[r] : r \in RecipeNames(candidates)})

\* C3: after an Optimal solve no machine's assigned time exceeds the solver's
\* Makespan value, nor the makespan print_candidates_formatted recomputes.
C3_MachineTimeWithinMakespan ==
    /\ SolvedOptimal =>
          \A m \in MachineNames(candidates) : LoadOf(candidates, PlanSet, m) <= makespan
    /\ (pc = "printed" /\ status = "Optimal") =>
          \A m \in MachineNames(candidates) : LoadOf(candidates, PlanSet, m) <= printed.makespan

C3_Witness ==
    /\ pc = "printed"
    /\ status = "Optimal"
    /\ Cardinality(PlanMachines(candidates, plan)) = 2
    /\ \E m \in MachineNames(candidates) : LoadOf(candidates, PlanSet, m) = makespan
    /\ \E m \in MachineNames(candidates) : LoadOf(candidates, PlanSet, m) < makespan

\* C4: the assignment the solver picks by minimizing makespan + epsilon *
\* total time attains the least achievable machine busy-time maximum.
C4_EpsilonOnlyBreaksTies ==
    SolvedOptimal =>
        \A s \in FeasibleSolutions(candidates) :
            MaxOf({MachineTimeTerms(candidates, xvalue, m) : m \in MachineNames(candidates)})
                <= MaxOf({MachineTimeTerms(candidates, s.x, m) : m \in MachineNames(candidates)})

\* C5: with A on M1 (100 s) and M2 (150 s) and B on M1 only (100 s), the
\* Optimal plan puts A on M2 and B on M1 (makespan 150 s).
ScenarioContention ==
    <<[recipe |-> "A", machine |-> "M1", estimated_time |-> 100,
       total_energy_consumption |-> 1200],
      [recipe |-> "A", machine |-> "M2", estimated_time |-> 150,
       total_energy_consumption |-> 750],
      [recipe |-> "B", machine |-> "M1", estimated_time |-> 100,
       total_energy_consumption |-> 1200]>>

C5_ContentionScenario ==
    (SolvedOptimal /\ candidates = ScenarioContention) =>
        /\ {<<candidates[i].recipe, candidates[i].machine>> : i \in PlanSet}
              = {<<"A", "M2">>, <<"B", "M1">>}
        /\ Len(plan) = 2
        /\ makespan = 150
        /\ pc = "printed" => printed.makespan = 150

C5_Witness == pc = "printed" /\ status = "Optimal" /\ candidates = ScenarioContention

\* C6: on any status other than Optimal the returned list holds, for each
\* recipe that has candidates, one candidate, of the smallest estimated time
\* among that recipe's candidates.
C6_GreedyFallback ==
    FellBack =>
        /\ Len(plan) = Cardinality(RecipeNames(candidates))
        /\ \A r \in RecipeNames(candidates) :
              \E k \in 1..Len(plan) :
                  /\ candidates[plan[k]].recipe = r
                  /\ \A i \in Indices(candidates) :
                        candidates[i].recipe = r =>
                            candidates[plan[k]].estimated_time <= candidates[i].estimated_time

C6_Witness ==
    /\ FellBack
    /\ Len(plan) >= 2
    /\ \E i \in Indices(candidates) :
          i \notin PlanSet /\ candidates[i].estimated_time > 1
    /\ \E m \in MachineNames(candidates) :
          Cardinality({i \in PlanSet : candidates[i].machine = m}) >= 2

\* C7: what the caller gets from the greedy fallback (the returned list and
\* the printed totals) differs from what it gets from any Optimal solve of
\* the same candidates.
C7_FallbackDistinguished ==
    (pc = "printed" /\ status \in NonOptimalStatus) =>
        \A s \in OptimalSolutions(candidates) :
            \/ ExtractResults(candidates, s.x) # plan
            \/ PrintCandidatesFormatted(candidates, ExtractResults(candidates, s.x)) # printed

----------------------------------------------------------------------------
(* Properties of the cost model.                                           *)

Built == pc = "cost" /\ candidate # None

BaseTime ==
    RAdd(RAdd(candidate.idle_time, candidate.loading_time), candidate.producing_time)

ComponentsNonNegative ==
    /\ RLe(RInt(0), candidate.idle_time)
    /\ RLe(RInt(0), candidate.loading_time)
    /\ RLe(RInt(0), candidate.producing_time)

CookieScenario ==
    /\ pc = "cost"
    /\ task.recipe = Cookie
    /\ task.requested_quantity = RInt(200)
    /\ task.machine.loading_rates = [by_unit |-> (KILOGRAM :> RInt(10)), by_material |-> <<>>]
    /\ GetSettingForRecipeFromName(task.machine, "Cookie")
          = [recipe |-> Cookie, time |-> RInt(1), setup_time |-> RInt(60),
             unload_time |-> RInt(30), yield_rate |-> RInt(1), capacity |-> RInt(100),
             energy_factor |-> RInt(1)]

C9_CookieScenarioIs334 ==
    (CookieScenario /\ evaluated # None) => evaluated = RInt(334)

\* C10: for a piece-counted recipe actual_quantity is an integer, the least
\* one not below requested / yield; for any other output unit it is exactly
\* requested / yield.
C10_ActualQuantityCeiling ==
    Built =>
        LET a == candidate.actual_quantity
            y == candidate.recipe_settings.yield_rate
            one == RInt(1)
        IN  IF task.recipe.output_unit = PIECE
            THEN /\ a.d = 1
                 /\ RLe(task.requested_quantity, RMul(a, y))
                 /\ RLt(RMul(RAdd(a, RInt(-1)), y), task.requested_quantity)
            ELSE RMul(a, y) = task.requested_quantity

C10_Witness ==
    /\ Built
    /\ task.recipe.output_unit = PIECE
    /\ candidate.recipe_settings.yield_rate = Rat(19, 20)
    /\ task.requested_quantity = RInt(200)
    /\ candidate.actual_quantity = RInt(211)

\* k is the least integer with k * den >= a
IsCeilOf(k, a, den) ==
    /\ RLe(a, RMul(RInt(k), den))
    /\ RLt(RMul(RInt(k - 1), den), a)

\* C11: the batch repetition count is the least integer not below
\* actual_quantity / output quantity and the unload count the least integer
\* not below actual_quantity / capacity (producing time is the first times
\* the setting's time, idle time is setup plus the second times the unload
\* time); both are >= 1 when actual_quantity > 0 and 0 only when it is 0.
C11_BatchAndUnloadCounts ==
    Built =>
        LET a == candidate.actual_quantity
            st == candidate.recipe_settings
            runs == candidate.how_many_times_recipe
            unloads == Ceil(RDiv(a, st.capacity))
        IN  /\ IsCeilOf(runs, a, task.recipe.output_quantity)
            /\ IsCeilOf(unloads, a, st.capacity)
            /\ candidate.producing_time = RMul(RInt(runs), st.time)
            /\ candidate.idle_time = RAdd(st.setup_time, RMul(RInt(unloads), st.unload_time))
            /\ RLt(RInt(0), a) => (runs >= 1 /\ unloads >= 1)
            /\ (runs = 0 \/ unloads = 0) => a = RInt(0)

C11_Witness ==
    /\ Built
    /\ candidate.actual_quantity = RInt(211)
    /\ task.recipe = Cookie
    /\ candidate.recipe_settings.capacity = RInt(30)
    /\ candidate.recipe_settings.unload_time = RInt(30)
    /\ candidate.how_many_times_recipe = 3
    /\ candidate.idle_time = RAdd(candidate.recipe_settings.setup_time, RInt(8 * 30))

HasNameRate(m, material) == material.name \in DOMAIN m.loading_rates.by_material

HasUnitRate(m, material) == material.unit \in DOMAIN m.loading_rates.by_unit

\* the rate the stated priority finds: the name entry, else the unit entry
RateByPriority(m, material) ==
    IF HasNameRate(m, material)
    THEN m.loading_rates.by_material[material.name]
    ELSE m.loading_rates.by_unit[material.unit]

\* sum over the ingredient lines from k on of (quantity * runs) / rate
RECURSIVE QuantityOverRate(_, _, _, _)
QuantityOverRate(m, ingredients, runs, k) ==
    IF k > Len(ingredients) THEN RInt(0)
    ELSE RAdd(RDiv(RMul(ingredients[k].quantity, RInt(runs)),
                   RateByPriority(m, ingredients[k].material)),
              QuantityOverRate(m, ingredients, runs, k + 1))

AllIngredientsHaveRate ==
    \A k \in 1..Len(task.recipe.ingredients) :
        \/ HasNameRate(task.machine, task.recipe.ingredients[k].material)
        \/ HasUnitRate(task.machine, task.recipe.ingredients[k].material)

Loaded == pc = "cost" /\ loaded # None

C13_MissingRateDefault ==
    /\ (Loaded /\ ~HasNameRate(task.machine, loaded.material)
               /\ ~HasUnitRate(task.machine, loaded.material)
               /\ RLt(RInt(0), loaded.quantity)) =>
          RLt(RInt(0), loaded.time)
    /\ (pc = "cost" /\ ~AllIngredientsHaveRate
                    /\ GetSettingForRecipeFromName(task.machine, task.recipe.name) # None) =>
          raised.candidate = NONE
    /\ (Built /\ ~AllIngredientsHaveRate /\ candidate.how_many_times_recipe >= 1) =>
          RLt(RInt(0), candidate.loading_time)

\* C14: the energy of each machine state is seconds * nominal power *
\* profile factor / 3600 and the candidate's total energy is the sum over
\* the three states multiplied by the setting's energy factor.
C14_EnergyPerStateAndTotal ==
    Built =>
        LET m == task.machine
            e == candidate.energy_consumption_per_profiles
            PerState(seconds, s) ==
                RDiv(RMul(RMul(seconds, m.nominal_power_kw), m.power_profile[s]),
                     RInt(SECONDS_PER_HOUR))
        IN  /\ e[IDLE] = PerState(candidate.idle_time, IDLE)
            /\ e[LOADING] = PerState(candidate.loading_time, LOADING)
            /\ e[PRODUCE] = PerState(candidate.producing_time, PRODUCE)
            /\ candidate.total_energy_consumption
                  = RMul(RAdd(RAdd(e[IDLE], e[LOADING]), e[PRODUCE]),
                         candidate.recipe_settings.energy_factor)

\* C15: for a machine with no setting for the recipe, the constructor and
\* evaluate_recipe_time each end with ValueError and leave no candidate and
\* no time value.
C15_UnsupportedRecipeFailsWithValueError ==
    (pc = "cost" /\ GetSettingForRecipeFromName(task.machine, task.recipe.name) = None) =>
        /\ candidate = None
        /\ evaluated = None
        /\ raised.candidate \in {NONE, "ValueError"}
        /\ raised.evaluate \in {NONE, "ValueError"}

----------------------------------------------------------------------------
(* Properties of the planning pipeline.                                    *)

PlanRun == machines # <<>>

\* create_candidates has returned
Returned == PlanRun /\ pc \in {"start", "optimized", "printed", "exit"}

Supports(m, r) == GetSettingForRecipeFromName(m, r.name) # None

CandidatesOf(rname, mname) ==
    {i \in Indices(candidates) :
        candidates[i].recipe = rname /\ candidates[i].machine = mname}

RECURSIVE QuantitySum(_)
\* the sum of the quantities of a list of order lines or dict entries
QuantitySum(entries) ==
    IF entries = <<>> THEN RInt(0)
    ELSE RAdd(Head(entries).quantity, QuantitySum(Tail(entries)))

ItemsOf(r) ==
    LET IsR(item) == item.recipe = r
    IN  SelectSeq(FlattenItems(orders), IsR)

\* the recipe is named by a "No machines found to produce" error line
Reported(r) ==
    \E k \in 1..Len(log) :
        /\ log[k].level = "error"
        /\ log[k].msg = "No machines found to produce"
        /\ log[k].arg = r.name

PlanCount(r) == Cardinality({k \in 1..Len(plan) : candidates[plan[k]].recipe = r.name})

\* C16: the list create_candidates returns holds exactly one candidate for
\* each (recipe, machine) pair whose machine has a setting for the recipe
\* and none for any other pair, and each candidate's requested_quantity is
\* the aggregated quantity of its recipe.
C16_OneCandidatePerSupportedPair ==
    Returned =>
        /\ \A gi \in 1..Len(grouped), mi \in 1..Len(machines) :
              Cardinality(CandidatesOf(grouped[gi].recipe.name, machines[mi].name))
                  = IF Supports(machines[mi], grouped[gi].recipe) THEN 1 ELSE 0
        /\ \A i \in Indices(candidates) :
              /\ \E gi \in 1..Len(grouped) :
                    /\ candidates[i].recipe = grouped[gi].recipe.name
                    /\ candidates[i].requested_quantity = grouped[gi].quantity
              /\ \E mi \in 1..Len(machines) : candidates[i].machine = machines[mi].name

C16_Witness ==
    /\ Returned
    /\ Len(orders) = 2
    /\ Len(grouped) = 2
    /\ Len(candidates) = 3
    /\ \E i \in Indices(candidates) : candidates[i].requested_quantity = RInt(257)
    /\ \E gi \in 1..Len(grouped), mi \in 1..Len(machines) :
          ~Supports(machines[mi], grouped[gi].recipe)

\* C17: group_orders_by_recipe returns one entry for each recipe some order
\* line references and no other entry, the entry's value is the sum of the
\* quantities of the lines of that recipe, and the values add up to the
\* total of all line quantities.
C17_GroupedQuantities ==
    (PlanRun /\ pc # "main") =>
        /\ \A k \in 1..Len(FlattenItems(orders)) :
              Cardinality({gi \in 1..Len(grouped) :
                              grouped[gi].recipe = FlattenItems(orders)[k].recipe}) = 1
        /\ \A gi \in 1..Len(grouped) :
              /\ ItemsOf(grouped[gi].recipe) # <<>>
              /\ grouped[gi].quantity = QuantitySum(ItemsOf(grouped[gi].recipe))
        /\ QuantitySum(grouped) = QuantitySum(FlattenItems(orders))

C17_Witness ==
    /\ PlanRun
    /\ pc # "main"
    /\ Len(orders) = 2
    /\ Len(FlattenItems(orders)) = 3
    /\ Len(grouped) = 2
    /\ \E gi \in 1..Len(grouped) :
          grouped[gi].recipe = Cookie /\ grouped[gi].quantity = RInt(257)
    /\ QuantitySum(grouped) = RInt(314)

\* C18: once create_candidates has returned, a demanded recipe that no
\* machine supports has no candidate, is named by an error line of the log
\* and is not in the plan, while every demanded recipe some machine supports
\* is in the plan once and is not named by such a line.
C18_UnproducibleRecipeReported ==
    Returned =>
        \A gi \in 1..Len(grouped) :
            LET r == grouped[gi].recipe
                supported == \E mi \in 1..Len(machines) : Supports(machines[mi], r)
            IN  /\ ~supported =>
                      /\ \A i \in Indices(candidates) : candidates[i].recipe # r.name
                      /\ Reported(r)
                      /\ PlanCount(r) = 0
                /\ supported =>
                      /\ ~Reported(r)
                      /\ pc \in {"optimized", "printed"} => PlanCount(r) = 1

C18_Witness ==
    /\ pc = "printed"
    /\ PlanRun
    /\ Len(grouped) = 2
    /\ Reported(grouped[1].recipe)
    /\ PlanCount(grouped[1].recipe) = 0
    /\ PlanCount(grouped[2].recipe) = 1
    /\ Len(CandidatesByRecipe(candidates, grouped[2].recipe.name)) = 2

C20_FailingPairSkipped ==
    (PlanRun /\ pc # "main") =>
        /\ pc # "aborted"
        /\ raised.candidate = NONE
        /\ \A gi \in 1..Len(grouped), mi \in 1..Len(machines) :
              Supports(machines[mi], grouped[gi].recipe) =>
                  Cardinality(CandidatesOf(grouped[gi].recipe.name, machines[mi].name))
                      = IF ConstructionError(machines[mi], grouped[gi].recipe) = NONE
                        THEN 1 ELSE 0

\* C27: for every candidate, one with zero working time on a machine working
\* fewer than 24 hours a day included, estimated_time is >= idle + loading +
\* producing and is never negative; the adjustment is (days_needed - 1) *
\* (24 - max_working_hours_per_day) hours and is 0 when the work fits in one
\* working day.
C27_EstimatedTimeNeverBelowWork ==
    Built =>
        LET h == task.machine.max_working_hours_per_day
            days == DaysNeeded(task.machine, BaseTime)
        IN  /\ RLe(BaseTime, candidate.estimated_time)
            /\ RLe(RInt(0), candidate.estimated_time)
            /\ candidate.estimated_time
                  = RAdd(BaseTime, RInt((days - 1) * (HOURS_PER_DAY - h) * SECONDS_PER_HOUR))
            /\ RLe(BaseTime, RInt(h * SECONDS_PER_HOUR))
                  => candidate.estimated_time = BaseTime

\* the log holds the warning create_candidates has for an empty list
WarnedNoCandidates ==
    \E k \in 1..Len(log) :
        log[k].level = "warn" /\ log[k].msg = "No candidates generated"

\* the log holds the success line create_candidates has for a non-empty list
LoggedGenerated ==
    \E k \in 1..Len(log) :
        log[k].level = "success" /\ log[k].msg = "Generated"

\* C28: once create_candidates has returned, the "No candidates generated"
\* warning is in the log exactly when the returned list is empty, and the
\* "Generated N candidates" success line only when it is not empty.
C28_WarningExactlyWhenEmpty ==
    Returned =>
        /\ WarnedNoCandidates <=> candidates = <<>>
        /\ LoggedGenerated => candidates # <<>>

\* C30: for the same machine, supported recipe and (positive) requested
\* quantity, evaluate_recipe_time returns the estimated_time of the
\* candidate built.
C30_EvaluatorAgreesWithCandidate ==
    (Built /\ evaluated # None /\ ValidTriple(task))
        => evaluated = candidate.estimated_time

\* the candidates the greedy fallback returns for the current list
GreedySet ==
    {GreedyFallback(candidates)[k] : k \in 1..Len(GreedyFallback(candidates))}

\* sum of the estimated times of the set S of candidate indices
TotalOf(cands, S) == SumSet(S, [i \in Indices(cands) |-> cands[i].estimated_time])

RecipesOf(cands, S) == {cands[i].recipe : i \in S}

\* C29: for a non-empty candidate list, the plan of the greedy fallback has a
\* makespan >= that of the plan returned after an Optimal solve and a total
\* busy time <= that of this plan, and both plans cover the same recipes.
C29_GreedyAgainstOptimal ==
    SolvedOptimal =>
        /\ MakespanOf(candidates, GreedySet) >= MakespanOf(candidates, PlanSet)
        /\ TotalOf(candidates, GreedySet) <= TotalOf(candidates, PlanSet)
        /\ RecipesOf(candidates, GreedySet) = RecipesOf(candidates, PlanSet)
        /\ Cardinality(GreedySet) = Len(plan)

C29_Witness ==
    /\ SolvedOptimal
    /\ MakespanOf(candidates, GreedySet) > MakespanOf(candidates, PlanSet)
    /\ TotalOf(candidates, GreedySet) < TotalOf(candidates, PlanSet)
    /\ Cardinality(RecipesOf(candidates, PlanSet)) = 2

\* the index sets of the one-candidate-per-recipe selections
Assignments(cands) == {{a[r] : r \in RecipeNames(cands)} : a \in OnePerRecipe(cands)}

\* the selections whose makespan is the least one achievable
MinMakespanAssignments(cands) ==
    {S \in Assignments(cands) :
        \A T \in Assignments(cands) : MakespanOf(cands, S) <= MakespanOf(cands, T)}

\* C25: the plan returned after an Optimal solve is, among the selections of
\* one candidate per recipe that attain the minimum makespan, one of the
\* least sum of estimated times.
C25_LeastTotalAmongMinMakespan ==
    SolvedOptimal =>
        /\ PlanSet \in MinMakespanAssignments(candidates)
        /\ \A S \in MinMakespanAssignments(candidates) :
              TotalOf(candidates, PlanSet) <= TotalOf(candidates, S)

\* C22: the report of a selected plan gives as total energy the sum of the
\* selected candidates' total_energy_consumption, as total work time the sum
\* of their estimated_time, and as makespan the largest per-machine sum of
\* estimated_time (0 for an empty plan); so makespan <= total work time.
C22_ReportedTotals ==
    /\ pc = "printed" =>
          /\ printed.total_energy
                = SumSet(PlanSet, [i \in Indices(candidates) |->
                                      candidates[i].total_energy_consumption])
          /\ printed.total_work_time = TotalOf(candidates, PlanSet)
          /\ printed.makespan = MakespanOf(candidates, PlanSet)
          /\ printed.makespan <= printed.total_work_time
    /\ PrintCandidatesFormatted(candidates, <<>>)
          = [total_energy |-> 0, total_work_time |-> 0, makespan |-> 0]

C22_Witness ==
    /\ pc = "printed"
    /\ Cardinality(PlanMachines(candidates, plan)) = 2
    /\ printed.makespan < printed.total_work_time
    /\ printed.total_energy # 12 * printed.total_work_time
    /\ printed.total_energy > 0

\* the candidate's three durations with the one of state s doubled
DoubledTimes(s) ==
    [idle_time |-> IF s = IDLE THEN RMul(RInt(2), candidate.idle_time)
                   ELSE candidate.idle_time,
     loading_time |-> IF s = LOADING THEN RMul(RInt(2), candidate.loading_time)
                      ELSE candidate.loading_time,
     producing_time |-> IF s = PRODUCE THEN RMul(RInt(2), candidate.producing_time)
                        ELSE candidate.producing_time]

\* C23: with the machine's nominal power and profile fixed, doubling the
\* duration of one power state doubles that state's energy and leaves the
\* energy of the other two states unchanged, in the candidate's per-state
\* energies and in the total Machine.energy_use returns.
C23_EnergyLinearInDuration ==
    /\ Built =>
          \A s \in {IDLE, LOADING, PRODUCE} :
              LET e == candidate.energy_consumption_per_profiles
                  e2 == EnergyConsumptionPerProfiles(task.machine, DoubledTimes(s))
              IN  /\ e2[s] = RMul(RInt(2), e[s])
                  /\ \A o \in {IDLE, LOADING, PRODUCE} \ {s} : e2[o] = e[o]
    /\ used # None =>
          LET alone == [o \in {IDLE, LOADING, PRODUCE} |->
                           IF o = used.doubled THEN used.seconds[o] ELSE RInt(0)]
          IN  used.energy_doubled
                  = RAdd(used.energy,
                         EnergyUse(task.machine, [keys |-> used.keys, seconds |-> alone]))

C23_Witness ==
    /\ Built
    /\ RLt(RInt(0), candidate.idle_time)
    /\ RLt(RInt(0), candidate.loading_time)
    /\ RLt(RInt(0), candidate.producing_time)
    /\ used # None
    /\ used.keys = "member"
    /\ RLt(used.energy, used.energy_doubled)

----------------------------------------------------------------------------
(* Machine.add_setting and the setting's back-reference.                    *)
(* settings are numbered in the order they are constructed;                *)
(* setting_machine[s] is the machine attribute of setting s and            *)
(* machine_settings[m] the settings list of machine m.                     *)

\* how many MachineRecipeSetting objects a run constructs at most
MaxSettings == 3
\* how many add_setting calls a run makes at most
MaxAddCalls == 3

FactoryMachines == {MachineOrder[k] : k \in 1..Len(MachineOrder)}

\* the add_setting calls made so far: one list entry each
AddCalls == SumSet(FactoryMachines, [m \in FactoryMachines |-> Len(machine_settings[m])])

\* setting.machine = self
LinkedTo(sm, m, s) == [sm EXCEPT ![s] = m]

\* self.settings.append(setting)
Appended(ms, m, s) == [ms EXCEPT ![m] = Append(@, s)]

InitSettings ==
    /\ pc = "settings"
    /\ candidates = <<>>
    /\ status = NONE
    /\ xvalue = NONE
    /\ makespan = NONE
    /\ plan = <<>>
    /\ log = <<>>
    /\ printed = NONE
    /\ task = None
    /\ candidate = None
    /\ evaluated = None
    /\ raised = [candidate |-> NONE, evaluate |-> NONE]
    /\ loaded = None
    /\ used = None
    /\ orders = <<>>
    /\ machines = <<>>
    /\ grouped = <<>>
    /\ planner = <<>>
    /\ earlier = None
    /\ again = None
    /\ machine_settings = [m \in FactoryMachines |-> <<>>]
    /\ setting_machine = <<>>

\* MachineRecipeSetting(...): the new setting is linked to no machine
NewSetting ==
    /\ pc = "settings"
    /\ Len(setting_machine) < MaxSettings
    /\ setting_machine' = Append(setting_machine, NONE)
    /\ UNCHANGED <<pc, machine_settings>>
    /\ UNCHANGED optVars
    /\ UNCHANGED costVars
    /\ UNCHANGED planVars
    /\ UNCHANGED callVars

\* machine.add_setting(setting), for any machine and any setting built
AddSetting ==
    /\ pc = "settings"
    /\ AddCalls < MaxAddCalls
    /\ \E m \in FactoryMachines, s \in 1..Len(setting_machine) :
          /\ setting_machine' = LinkedTo(setting_machine, m, s)
          /\ machine_settings' = Appended(machine_settings, m, s)
    /\ UNCHANGED pc
    /\ UNCHANGED optVars
    /\ UNCHANGED costVars
    /\ UNCHANGED planVars
    /\ UNCHANGED callVars

\* one entry of machines_recipe_settings.json: the loader constructs a
\* setting and adds it to the entry's machine
LoadMachineRecipeSetting ==
    /\ pc = "settings"
    /\ Len(setting_machine) < MaxSettings
    /\ AddCalls < MaxAddCalls
    /\ \E m \in FactoryMachines :
          LET s == Len(setting_machine) + 1
          IN  /\ setting_machine' = LinkedTo(Append(setting_machine, NONE), m, s)
              /\ machine_settings' = Appended(machine_settings, m, s)
    /\ UNCHANGED pc
    /\ UNCHANGED optVars
    /\ UNCHANGED costVars
    /\ UNCHANGED planVars
    /\ UNCHANGED callVars

NextSettings == NewSetting \/ AddSetting \/ LoadMachineRecipeSetting

SpecSettings == InitSettings /\ [][NextSettings]_vars

\* the machines whose settings list holds setting s
OwnersOf(s) ==
    {m \in DOMAIN machine_settings :
        \E k \in 1..Len(machine_settings[m]) : machine_settings[m][k] = s}

\* every listed setting points back to the machine that lists it, and is
\* listed by one machine only
BackReferencesAgree ==
    \A m \in DOMAIN machine_settings :
        \A k \in 1..Len(machine_settings[m]) :
            /\ setting_machine[machine_settings[m][k]] = m
            /\ OwnersOf(machine_settings[m][k]) = {m}

\* a step leaves every established back-reference as it was
BackReferencesKept ==
    \A s \in 1..Len(setting_machine) :
        setting_machine[s] # NONE => setting_machine'[s] = setting_machine[s]

\* C24: after any sequence of add_setting calls, every setting in a machine's
\* settings list has that machine as its back-reference and is listed by
\* that machine only, and no step reassigns an established back-reference.
C24_BackReferenceIntegrity ==
    /\ []BackReferencesAgree
    /\ [][BackReferencesKept]_vars

----------------------------------------------------------------------------
(* Several optimize_assignment calls on one planner: a call on another     *)
(* list, the call on candidates, and a second call on candidates.          *)

\* estimated times at which two assignments of different makespan have the
\* same objective value: 10002 + 0.0001 * 10002 = 10001 + 0.0001 * 20002
TieTimes == {1, 10001}

\* what one call of optimize_assignment on cands may return: [] for an empty
\* list, the extraction of any Optimal solution, or the greedy list under
\* any other status
OptimizeAssignmentResults(cands) ==
    IF cands = <<>>
    THEN {[status |-> NONE, makespan |-> NONE, plan |-> <<>>]}
    ELSE {[status |-> "Optimal", makespan |-> s.mk, plan |-> ExtractResults(cands, s.x)] :
             s \in OptimalSolutions(cands)}
         \cup {[status |-> st, makespan |-> NONE, plan |-> GreedyFallback(cands)] :
                  st \in NonOptimalStatus}

\* the lines a call with result res hands to the logger
CallLog(cands, res) ==
    IF cands = <<>> THEN <<>>
    ELSE IF res.status = "Optimal"
    THEN <<[level |-> "info", msg |-> "Optimization Status", arg |-> "Optimal"]>>
         \o AssignedLog(cands, res.plan)
         \o <<[level |-> "info", msg |-> "Optimized Makespan", arg |-> res.makespan]>>
    ELSE <<[level |-> "info", msg |-> "Optimization Status", arg |-> res.status],
           [level |-> "warn",
            msg |-> "Could not find optimal solution. Returning best candidates.",
            arg |-> NONE]>>

\* a candidate list other than cands: cands without its first candidate
OtherList(cands) == Tail(cands)

\* the pairs of the first two recipes: the lists of these runs are drawn
\* from them
CallPairs == 1..(2 * Len(MachineOrder))

InitCalls ==
    /\ pc = "start"
    /\ \E supp \in SUBSET CallPairs :
          /\ Cardinality(supp) <= MaxCandidates
          /\ \E t \in [supp -> TieTimes] : candidates = CandidateList(supp, t)
    /\ status = NONE
    /\ xvalue = NONE
    /\ makespan = NONE
    /\ plan = <<>>
    /\ log = <<>>
    /\ printed = NONE
    /\ task = None
    /\ candidate = None
    /\ evaluated = None
    /\ raised = [candidate |-> NONE, evaluate |-> NONE]
    /\ loaded = None
    /\ used = None
    /\ orders = <<>>
    /\ machines = <<>>
    /\ grouped = <<>>
    /\ planner = <<>>
    /\ earlier = None
    /\ again = None
    /\ machine_settings = <<>>
    /\ setting_machine = <<>>

\* planner.optimize_assignment(other), before the call on candidates
OptimizeEarlier ==
    /\ pc = "start"
    /\ earlier = None
    /\ candidates # <<>>
    /\ \E res \in OptimizeAssignmentResults(OtherList(candidates)) :
          /\ earlier' = [candidates |-> OtherList(candidates), result |-> res]
          /\ log' = log \o CallLog(OtherList(candidates), res)
    /\ planner' = PlannerAfter(planner, OtherList(candidates))
    /\ UNCHANGED <<pc, candidates, status, xvalue, makespan, plan, printed, again>>
    /\ UNCHANGED costVars
    /\ UNCHANGED planVars
    /\ UNCHANGED settingVars

\* planner.optimize_assignment(candidates), a second time
OptimizeAgain ==
    /\ pc = "optimized"
    /\ again = None
    /\ \E res \in OptimizeAssignmentResults(candidates) :
          /\ again' = res
          /\ log' = log \o CallLog(candidates, res)
    /\ planner' = PlannerAfter(planner, candidates)
    /\ UNCHANGED <<pc, candidates, status, xvalue, makespan, plan, printed, earlier>>
    /\ UNCHANGED costVars
    /\ UNCHANGED planVars
    /\ UNCHANGED settingVars

NextCalls == OptimizeEarlier \/ OptimizeAssignment \/ OptimizeAgain

SpecCalls == InitCalls /\ [][NextCalls]_vars

\* C21: two calls of optimize_assignment on the same candidate list that both
\* end with status Optimal return plans of the same makespan, and the solver
\* reports the same Makespan value.
C21_SameMakespanOnRerun ==
    (again # None /\ status = "Optimal" /\ again.status = "Optimal") =>
        /\ MakespanOf(candidates, {again.plan[k] : k \in 1..Len(again.plan)})
              = MakespanOf(candidates, PlanSet)
        /\ again.makespan = makespan

\* the first call's result, as the caller sees it
FirstResult == [status |-> status, makespan |-> makespan, plan |-> plan]

\* C26: no call of optimize_assignment changes the candidate list, a
\* candidate's fields or the planner object, and what a call returns is a
\* result of its own list alone, whatever call was made before on another
\* list.
C26_OptimizeAssignmentStateless ==
    /\ [][candidates' = candidates /\ planner' = planner]_vars
    /\ [](pc = "optimized" => FirstResult \in OptimizeAssignmentResults(candidates))
    /\ [](again # None => again \in OptimizeAssignmentResults(candidates))
    /\ [](earlier # None =>
            /\ earlier.candidates = OtherList(candidates)
            /\ earlier.result \in OptimizeAssignmentResults(earlier.candidates))

C26_Witness ==
    /\ pc = "optimized"
    /\ Len(candidates) = 3
    /\ earlier # None
    /\ earlier.result.status = "Optimal"
    /\ status = "Optimal"
    /\ earlier.result.plan # plan
    /\ Len(plan) = 2
    /\ again # None

=============================================================================
